---- MODULE Spec2Model ----
(***************************************************************************)
(* Model of the object pool in src/src/lib.rs: a Pool that hands objects   *)
(* out of an unbounded async_channel, and the Reusable handle that sends   *)
(* its object back on teardown or gives it away through detach().          *)
(*                                                                         *)
(* Objects are identified by the order of their creation (1, 2, ...), so   *)
(* that two bitwise copies of one object are two occurrences of one id.    *)
(***************************************************************************)
EXTENDS Integers, Sequences, FiniteSets

\* ------------------------------------------------------------ bounds ----
MaxInit    == 2    \* largest initial_capacity tried by Pool::new
MaxObjs    == 2    \* objects ever created (factory calls + attached objects)
MaxHandles == 2    \* Reusable values ever built by pull / try_pull
MaxPools   == 2    \* Pool values (the first one and its clones)
NTasks     == 1    \* futures of pull() / attach() pending at the same time

PoolIds   == 1..MaxPools
HandleIds == 1..MaxHandles
FutKinds  == {"recv", "send"}

VARIABLES
  pools,         \* the Pool values alive (the first and its clones); each owns one
                 \* Receiver and one Sender of the channel
  chan,          \* the channel's queue: sequence of object ids
  closed,        \* the channel's closed flag
  handles,       \* per Reusable ever built: object wrapped, extraction count, fate
  det,           \* per detached Reusable: the object its caller still holds (0: none)
  pend,          \* number of pending futures of pull() ("recv") and of attach() ("send")
  nextObj,       \* id of the next object to be created
  initial_capacity, \* the argument of Pool::new
  factoryCalls,  \* number of invocations of extend_fn
  expandCalls,   \* number of calls of expand()
  introduced,    \* objects that entered the pool: initial fill, attach, try_attach, expand
  discarded,     \* objects dropped by a Reusable whose return to the channel failed
  destroyed,     \* objects whose destructor has run
  aborted,       \* the process died on a double drop
  outcome,       \* how the last operation ended: the failure it returned, "Cancelled"
                 \* for a future dropped before it completed, "Ok" otherwise
  trip           \* observer: the pull just made and what its handle has done since,
                 \* as long as nothing else has acted

vars == <<pools, chan, closed, handles, det, pend, nextObj, initial_capacity,
          factoryCalls, expandCalls, introduced, discarded, destroyed, aborted, outcome,
          trip>>

\* ------------------------------------------------------- the channel ----
\* Mutant of TrySend: a send on a closed channel is reported as done.
TrySendSwallow(q, cl, o) ==
  IF cl THEN [ok |-> TRUE, q |-> q] ELSE [ok |-> TRUE, q |-> Append(q, o)]

\* Sender::try_send on the unbounded channel: fails only when closed.
TrySend(q, cl, o) ==
  IF cl THEN [ok |-> FALSE, q |-> q] ELSE [ok |-> TRUE, q |-> Append(q, o)]

\* Mutant of TryRecv: the head is read but left in the queue.
TryRecvPeek(q, cl) ==
  IF q # <<>> THEN [res |-> "Ok", obj |-> Head(q), q |-> q]
  ELSE IF cl THEN [res |-> "Closed", obj |-> 0, q |-> q]
  ELSE [res |-> "Empty", obj |-> 0, q |-> q]

\* Mutant of TryRecv: an empty queue is reported as a closed channel.
TryRecvEmptyIsClosed(q, cl) ==
  IF q # <<>> THEN [res |-> "Ok", obj |-> Head(q), q |-> Tail(q)]
  ELSE [res |-> "Closed", obj |-> 0, q |-> q]

\* Mutant of TryRecv: the closed flag is looked at before the queue.
TryRecvClosedFirst(q, cl) ==
  IF cl THEN [res |-> "Closed", obj |-> 0, q |-> q]
  ELSE IF q # <<>> THEN [res |-> "Ok", obj |-> Head(q), q |-> Tail(q)]
  ELSE [res |-> "Empty", obj |-> 0, q |-> q]

\* Mutant of TryRecv: the most recently queued item is handed out (a stack).
TryRecvLast(q, cl) ==
  IF q # <<>> THEN [res |-> "Ok", obj |-> q[Len(q)], q |-> SubSeq(q, 1, Len(q) - 1)]
  ELSE IF cl THEN [res |-> "Closed", obj |-> 0, q |-> q]
  ELSE [res |-> "Empty", obj |-> 0, q |-> q]

\* Receiver::try_recv: queued items are handed out even when closed.
TryRecv(q, cl) ==
  IF q # <<>> THEN [res |-> "Ok", obj |-> Head(q), q |-> Tail(q)]
  ELSE IF cl THEN [res |-> "Closed", obj |-> 0, q |-> q]
  ELSE [res |-> "Empty", obj |-> 0, q |-> q]

\* Receiver::len and Receiver::is_empty, as Pool::len / Pool::is_empty read them
len == Len(chan)

is_empty == chan = <<>>

\* Mutant of LastEndDropped: the channel stays open as long as a Sender lives.
LastEndDroppedNever(ps) == FALSE

\* The last Receiver to go closes the channel; every Pool value owns one
\* Receiver and one Sender, so the Senders never run out before the Receivers.
LastEndDropped(ps) == ps = {}

\* ------------------------------------------------------- the handles ----
NoHandle == [obj |-> 0, takes |-> 0, detached |-> FALSE, torn |-> "no"]

\* Reusable::new
ReusableNew(t) == [obj |-> t, takes |-> 0, detached |-> FALSE, torn |-> "no"]

Built(h) == handles[h] # NoHandle

\* A Reusable that is still a value of the program: built, not consumed by
\* detach, not dropped.
Holding(h) == Built(h) /\ ~handles[h].detached /\ handles[h].torn = "no"

FreeHandles == {h \in HandleIds : ~Built(h)}

NewHandle == CHOOSE h \in FreeHandles : \A g \in FreeHandles : h <= g

\* Reusable::take: ManuallyDrop::take reads the value out and leaves the
\* slot as it was, so a second take yields a second copy of the same object.
Take(hrec) == [val |-> hrec.obj, rec |-> [hrec EXCEPT !.takes = @ + 1]]

\* A future of pull() or attach() borrows the Pool value it was called on for
\* as long as it lives.  Which clone that is is not recorded: a Pool value can
\* be dropped, or borrowed mutably, when no future is pending or another Pool
\* value is left for the futures to be borrowing.
Pending == pend["recv"] + pend["send"]

Borrowed(p) == Pending > 0 /\ pools \ {p} = {}

\* Running the destructor of object o; on an object whose destructor has
\* already run this is a double drop, which may or may not kill the process.
DropValue(o) ==
  /\ destroyed' = destroyed \cup {o}
  /\ aborted' \in (IF o \in destroyed THEN BOOLEAN ELSE {FALSE})

\* Mutant of ReusableDrop: the object is dropped instead of sent back.
ReusableDropNoReturn(h, hrec) ==
  LET taken == Take(hrec)
  IN /\ chan' = chan
     /\ handles' = [handles EXCEPT ![h] =
                      [taken.rec EXCEPT !.obj = 0, !.torn = "Discarded"]]
     /\ DropValue(taken.val) /\ discarded' = discarded + 1

\* Drop for Reusable, run on the handle value hrec of handle h; the Reusable
\* is gone afterwards (obj = 0), what is kept of it is how it ended.
ReusableDrop(h, hrec) ==
  LET taken == Take(hrec)
      r == TrySend(chan, closed, taken.val)
  IN /\ chan' = r.q
     /\ handles' = [handles EXCEPT ![h] =
                      [taken.rec EXCEPT !.obj = 0,
                                        !.torn = IF r.ok THEN "Returned" ELSE "Discarded"]]
     /\ IF r.ok
          THEN UNCHANGED <<destroyed, aborted, discarded>>
          ELSE DropValue(taken.val) /\ discarded' = discarded + 1

\* ------------------------------------------------------ the observer ----
\* trip follows one handle from its pull on: "pulled", then "dropped", or
\* "detached" and then "sent" (back through the Sender), and is reset by
\* every other operation.  len is len() before the pull.
NoTrip == [h |-> 0, obj |-> 0, len |-> 0, stage |-> "none"]

TripPulled(h, o) == [h |-> h, obj |-> o, len |-> Len(chan), stage |-> "pulled"]

TripNext(h, from, to) ==
  IF trip.h = h /\ trip.stage = from THEN [trip EXCEPT !.stage = to] ELSE NoTrip

\* ------------------------------------------------------------- Init ----
\* Mutant of Init: the loop of Pool::new runs over 0..=initial_capacity.
InitOffByOne ==
  \E n \in 0..MaxInit :
    /\ pools = {1}
    /\ chan = [i \in 1..(n + 1) |-> i]
    /\ closed = FALSE
    /\ handles = [h \in HandleIds |-> NoHandle]
    /\ det = [h \in HandleIds |-> 0]
    /\ pend = [k \in FutKinds |-> 0]
    /\ nextObj = n + 2
    /\ initial_capacity = n
    /\ factoryCalls = n + 1
    /\ expandCalls = 0
    /\ introduced = n + 1
    /\ discarded = 0
    /\ destroyed = {}
    /\ aborted = FALSE
    /\ outcome = "Ok"
    /\ trip = NoTrip

\* Pool::new(n, init)
Init ==
  \E n \in 0..MaxInit :
    /\ pools = {1}
    /\ chan = [i \in 1..n |-> i]
    /\ closed = FALSE
    /\ handles = [h \in HandleIds |-> NoHandle]
    /\ det = [h \in HandleIds |-> 0]
    /\ pend = [k \in FutKinds |-> 0]
    /\ nextObj = n + 1
    /\ initial_capacity = n
    /\ factoryCalls = n
    /\ expandCalls = 0
    /\ introduced = n
    /\ discarded = 0
    /\ destroyed = {}
    /\ aborted = FALSE
    /\ outcome = "Ok"
    /\ trip = NoTrip

\* ---------------------------------------------------------- actions ----
\* #[derive(Clone)] on Pool.  Clones are interchangeable (same channel ends,
\* same Arc'd factory), so the ids in use are kept contiguous: a clone gets
\* the next id, and it is the value with the last id that is dropped.
Clone(p) ==
  /\ ~aborted /\ pools # {} /\ p \in PoolIds /\ p = Cardinality(pools) + 1
  /\ pools' = pools \cup {p}
  /\ outcome' = "Ok"
  /\ UNCHANGED <<chan, closed, handles, det, pend, nextObj, initial_capacity,
                 factoryCalls, expandCalls, introduced, discarded, destroyed, aborted>>
  /\ trip' = NoTrip

\* A Pool value goes out of scope: its Receiver and Sender are dropped.
DropPool(p) ==
  /\ ~aborted /\ p \in pools /\ p = Cardinality(pools) /\ ~Borrowed(p)
  /\ pools' = pools \ {p}
  /\ closed' = (closed \/ LastEndDropped(pools'))
  /\ outcome' = "Ok"
  /\ UNCHANGED <<chan, handles, det, pend, nextObj, initial_capacity,
                 factoryCalls, expandCalls, introduced, discarded, destroyed, aborted>>
  /\ trip' = NoTrip

\* Pool::pull is called: the future is built, nothing else happens yet.
PullCall(p) ==
  /\ ~aborted /\ p \in pools /\ Pending < NTasks
  /\ pend' = [pend EXCEPT !["recv"] = @ + 1]
  /\ outcome' = "Ok"
  /\ UNCHANGED <<pools, chan, closed, handles, det, nextObj, initial_capacity,
                 factoryCalls, expandCalls, introduced, discarded, destroyed, aborted>>
  /\ trip' = NoTrip

\* Mutant of PullPoll: the waiting task is woken when the channel is closed
\* and not when an object arrives.
PullPollOnClose ==
  LET r == TryRecv(chan, closed) IN
  /\ ~aborted /\ pend["recv"] > 0 /\ closed
  /\ pend' = [pend EXCEPT !["recv"] = @ - 1]
  /\ chan' = r.q
  /\ IF r.res = "Ok"
       THEN /\ FreeHandles # {}
            /\ handles' = [handles EXCEPT ![NewHandle] = ReusableNew(r.obj)]
            /\ outcome' = "Ok"
            /\ trip' = TripPulled(NewHandle, r.obj)
       ELSE /\ UNCHANGED handles
            /\ outcome' = "None"
            /\ trip' = NoTrip
  /\ UNCHANGED <<pools, closed, det, nextObj, initial_capacity, factoryCalls,
                 expandCalls, introduced, discarded, destroyed, aborted>>

\* A pull future is polled and recv() is ready: an item is queued, or the
\* channel is closed and empty.  (On an open empty channel the poll leaves
\* the task suspended and changes nothing.)
PullPoll ==
  LET r == TryRecv(chan, closed) IN
  /\ ~aborted /\ pend["recv"] > 0 /\ r.res # "Empty"
  /\ pend' = [pend EXCEPT !["recv"] = @ - 1]
  /\ chan' = r.q
  /\ IF r.res = "Ok"
       THEN /\ FreeHandles # {}
            /\ handles' = [handles EXCEPT ![NewHandle] = ReusableNew(r.obj)]
            /\ outcome' = "Ok"
            /\ trip' = TripPulled(NewHandle, r.obj)
       ELSE /\ UNCHANGED handles
            /\ outcome' = "None"
            /\ trip' = NoTrip
  /\ UNCHANGED <<pools, closed, det, nextObj, initial_capacity, factoryCalls,
                 expandCalls, introduced, discarded, destroyed, aborted>>

\* Mutant of TryPull: on an empty queue the factory builds an object for the
\* caller instead of the error being returned.
TryPullGrows(p) ==
  LET r == TryRecv(chan, closed)
      grow == r.res # "Ok" /\ nextObj <= MaxObjs
  IN
  /\ ~aborted /\ p \in pools
  /\ chan' = r.q
  /\ IF r.res = "Ok" \/ grow
       THEN /\ FreeHandles # {}
            /\ handles' = [handles EXCEPT ![NewHandle] =
                             ReusableNew(IF grow THEN nextObj ELSE r.obj)]
            /\ outcome' = "Ok"
            /\ trip' = NoTrip
       ELSE /\ UNCHANGED handles
            /\ outcome' = "NoBuffersAvailable"
            /\ trip' = NoTrip
  /\ nextObj' = IF grow THEN nextObj + 1 ELSE nextObj
  /\ factoryCalls' = IF grow THEN factoryCalls + 1 ELSE factoryCalls
  /\ introduced' = IF grow THEN introduced + 1 ELSE introduced
  /\ UNCHANGED <<pools, closed, det, pend, initial_capacity,
                 expandCalls, discarded, destroyed, aborted>>

\* Mutant of TryPull: written with recv().await, it waits on an open empty
\* channel instead of returning the error.
TryPullAwaits(p) ==
  LET r == TryRecv(chan, closed) IN
  /\ ~aborted /\ p \in pools /\ r.res # "Empty"
  /\ chan' = r.q
  /\ IF r.res = "Ok"
       THEN /\ FreeHandles # {}
            /\ handles' = [handles EXCEPT ![NewHandle] = ReusableNew(r.obj)]
            /\ outcome' = "Ok"
            /\ trip' = TripPulled(NewHandle, r.obj)
       ELSE /\ UNCHANGED handles
            /\ outcome' = "NoBuffersAvailable"
            /\ trip' = NoTrip
  /\ UNCHANGED <<pools, closed, det, pend, nextObj, initial_capacity, factoryCalls,
                 expandCalls, introduced, discarded, destroyed, aborted>>

\* Pool::try_pull
TryPull(p) ==
  LET r == TryRecv(chan, closed) IN
  /\ ~aborted /\ p \in pools
  /\ chan' = r.q
  /\ IF r.res = "Ok"
       THEN /\ FreeHandles # {}
            /\ handles' = [handles EXCEPT ![NewHandle] = ReusableNew(r.obj)]
            /\ outcome' = "Ok"
            /\ trip' = TripPulled(NewHandle, r.obj)
       ELSE /\ UNCHANGED handles
            /\ outcome' = "NoBuffersAvailable"
            /\ trip' = NoTrip
  /\ UNCHANGED <<pools, closed, det, pend, nextObj, initial_capacity, factoryCalls,
                 expandCalls, introduced, discarded, destroyed, aborted>>

\* Pool::attach is called with an object of the caller's: the future is
\* built around it, nothing else happens yet.
AttachCall(p) ==
  /\ ~aborted /\ p \in pools /\ Pending < NTasks /\ nextObj <= MaxObjs
  /\ pend' = [pend EXCEPT !["send"] = @ + 1]
  /\ outcome' = "Ok"
  /\ UNCHANGED <<pools, chan, closed, handles, det, nextObj, initial_capacity,
                 factoryCalls, expandCalls, introduced, discarded, destroyed, aborted>>
  /\ trip' = NoTrip

\* An attach future is polled: send() on an unbounded channel is always
\* ready.  The object gets its id here, where it first meets the channel.
AttachPoll ==
  LET r == TrySend(chan, closed, nextObj) IN
  /\ ~aborted /\ pend["send"] > 0 /\ nextObj <= MaxObjs
  /\ pend' = [pend EXCEPT !["send"] = @ - 1]
  /\ nextObj' = nextObj + 1
  /\ chan' = r.q
  /\ IF r.ok
       THEN /\ introduced' = introduced + 1
            /\ outcome' = "Ok"
            /\ UNCHANGED <<destroyed, aborted>>
       ELSE /\ UNCHANGED introduced
            /\ outcome' = "AttachError"
            /\ DropValue(nextObj)
  /\ UNCHANGED <<pools, closed, handles, det, initial_capacity,
                 factoryCalls, expandCalls, discarded>>
  /\ trip' = NoTrip

\* Mutant of Cancel: the abandoned pull had already taken the head of the
\* queue, which is lost with the future.
CancelConsumes(k) ==
  /\ ~aborted /\ pend[k] > 0
  /\ pend' = [pend EXCEPT ![k] = @ - 1]
  /\ outcome' = "Cancelled"
  /\ chan' = IF k = "recv" /\ chan # <<>> THEN Tail(chan) ELSE chan
  /\ UNCHANGED <<pools, closed, handles, det, nextObj, initial_capacity,
                 factoryCalls, expandCalls, introduced, discarded, destroyed, aborted>>
  /\ trip' = NoTrip

\* A pull()/attach() future is dropped before it completed; the object an
\* attach future holds is dropped with it and never met the channel.
Cancel(k) ==
  /\ ~aborted /\ pend[k] > 0
  /\ pend' = [pend EXCEPT ![k] = @ - 1]
  /\ outcome' = "Cancelled"
  /\ UNCHANGED <<pools, chan, closed, handles, det, nextObj, initial_capacity,
                 factoryCalls, expandCalls, introduced, discarded, destroyed, aborted>>
  /\ trip' = NoTrip

\* Mutant of TryAttachObj: the result of try_send is ignored.
TryAttachObjUnchecked(o) ==
  LET r == TrySend(chan, closed, o) IN
  /\ chan' = r.q
  /\ outcome' = "Ok"
  /\ IF r.ok
       THEN /\ introduced' = introduced + 1
            /\ UNCHANGED <<destroyed, aborted>>
       ELSE /\ UNCHANGED introduced
            /\ DropValue(o)

\* The body shared by try_attach and expand: try_send, the error mapped to
\* AttachError (which drops the object the error carries).
TryAttachObj(o) ==
  LET r == TrySend(chan, closed, o) IN
  /\ chan' = r.q
  /\ IF r.ok
       THEN /\ introduced' = introduced + 1
            /\ outcome' = "Ok"
            /\ UNCHANGED <<destroyed, aborted>>
       ELSE /\ UNCHANGED introduced
            /\ outcome' = "AttachError"
            /\ DropValue(o)

\* Pool::try_attach with an object of the caller's
TryAttach(p) ==
  /\ ~aborted /\ p \in pools /\ nextObj <= MaxObjs
  /\ nextObj' = nextObj + 1
  /\ TryAttachObj(nextObj)
  /\ UNCHANGED <<pools, closed, handles, det, pend, initial_capacity,
                 factoryCalls, expandCalls, discarded>>
  /\ trip' = NoTrip

\* Mutant of Expand: the object is built and dropped, try_attach is not called.
ExpandForgetsAttach(p) ==
  /\ ~aborted /\ p \in pools /\ ~Borrowed(p) /\ nextObj <= MaxObjs
  /\ nextObj' = nextObj + 1
  /\ factoryCalls' = factoryCalls + 1
  /\ expandCalls' = expandCalls + 1
  /\ outcome' = "Ok"
  /\ DropValue(nextObj)
  /\ UNCHANGED <<pools, chan, closed, handles, det, pend, initial_capacity,
                 introduced, discarded>>
  /\ trip' = NoTrip

\* Pool::expand (&mut self: no future may be borrowing this Pool value)
Expand(p) ==
  /\ ~aborted /\ p \in pools /\ ~Borrowed(p) /\ nextObj <= MaxObjs
  /\ nextObj' = nextObj + 1
  /\ factoryCalls' = factoryCalls + 1
  /\ expandCalls' = expandCalls + 1
  /\ TryAttachObj(nextObj)
  /\ UNCHANGED <<pools, closed, handles, det, pend, initial_capacity, discarded>>
  /\ trip' = NoTrip

\* A Reusable goes out of scope: Drop for Reusable.
DropHandle(h) ==
  /\ ~aborted /\ Holding(h)
  /\ ReusableDrop(h, handles[h])
  /\ outcome' = "Ok"
  /\ UNCHANGED <<pools, closed, det, pend, nextObj, initial_capacity, factoryCalls,
                 expandCalls, introduced>>
  /\ trip' = TripNext(h, "pulled", "dropped")

\* Reusable::detach(mut self): the Sender is cloned and the object taken for
\* the caller; then self, which is still an ordinary Reusable, goes out of
\* scope at the end of the function and Drop for Reusable runs on it.
Detach(h) ==
  LET taken == Take(handles[h]) IN
  /\ ~aborted /\ Holding(h)
  /\ det' = [det EXCEPT ![h] = taken.val]
  /\ ReusableDrop(h, [taken.rec EXCEPT !.detached = TRUE])
  /\ outcome' = "Ok"
  /\ UNCHANGED <<pools, closed, pend, nextObj, initial_capacity, factoryCalls,
                 expandCalls, introduced>>
  /\ trip' = TripNext(h, "pulled", "detached")

\* The caller of detach sends the object back through the Sender it got; on
\* a closed channel the object comes back in the error and stays with it.
SendBack(h) ==
  LET r == TrySend(chan, closed, det[h]) IN
  /\ ~aborted /\ det[h] # 0
  /\ chan' = r.q
  /\ det' = [det EXCEPT ![h] = IF r.ok THEN 0 ELSE @]
  /\ outcome' = "Ok"
  /\ UNCHANGED <<pools, closed, handles, pend, nextObj, initial_capacity, factoryCalls,
                 expandCalls, introduced, discarded, destroyed, aborted>>
  /\ trip' = IF r.ok THEN TripNext(h, "detached", "sent") ELSE NoTrip

\* The caller of detach closes the channel through the Sender it got.
CloseSender(h) ==
  /\ ~aborted /\ handles[h].detached /\ ~closed
  /\ closed' = TRUE
  /\ outcome' = "Ok"
  /\ UNCHANGED <<pools, chan, handles, det, pend, nextObj, initial_capacity, factoryCalls,
                 expandCalls, introduced, discarded, destroyed, aborted>>
  /\ trip' = NoTrip

\* The caller of detach drops the object it got.
DropDetached(h) ==
  /\ ~aborted /\ det[h] # 0
  /\ det' = [det EXCEPT ![h] = 0]
  /\ DropValue(det[h])
  /\ outcome' = "Ok"
  /\ UNCHANGED <<pools, chan, closed, handles, pend, nextObj, initial_capacity,
                 factoryCalls, expandCalls, introduced, discarded>>
  /\ trip' = NoTrip

Next ==
  \/ \E p \in PoolIds : Clone(p)
  \/ \E p \in PoolIds : DropPool(p)
  \/ \E p \in PoolIds : PullCall(p)
  \/ PullPoll
  \/ \E p \in PoolIds : TryPull(p)
  \/ \E p \in PoolIds : AttachCall(p)
  \/ AttachPoll
  \/ \E k \in FutKinds : Cancel(k)
  \/ \E p \in PoolIds : TryAttach(p)
  \/ \E p \in PoolIds : Expand(p)
  \/ \E h \in HandleIds : DropHandle(h)
  \/ \E h \in HandleIds : Detach(h)
  \/ \E h \in HandleIds : SendBack(h)
  \/ \E h \in HandleIds : CloseSender(h)
  \/ \E h \in HandleIds : DropDetached(h)

Spec == Init /\ [][Next]_vars

\* Fair scheduling: a task whose recv() is ready is woken by the channel and
\* polled by the executor, so a pull that can complete does complete unless
\* it stops being ready.
FairSpec == Spec /\ WF_vars(PullPoll)

\* --------------------------------------------- vocabulary of the claims ----
Objs == 1..(nextObj - 1)

BuiltHandles == {h \in HandleIds : Built(h)}

LiveHandles == {h \in HandleIds : Holding(h)}

\* A step in which handle h is consumed by detach().
DetachStep(h) == Holding(h) /\ handles'[h].detached

\* A step in which handle h goes out of scope without detach.
TeardownStep(h) == Holding(h) /\ ~handles'[h].detached /\ handles'[h].torn # "no"

\* A step in which pull / try_pull builds handle h.
PullStep(h) == ~Built(h) /\ handles'[h] # NoHandle

\* Number of owners of object o: occurrences in the queue, live handles
\* wrapping it, callers holding it after detach.
Owners(o) ==
  Cardinality({i \in 1..Len(chan) : chan[i] = o})
  + Cardinality({h \in HandleIds : Holding(h) /\ handles[h].obj = o})
  + Cardinality({h \in HandleIds : det[h] = o})

NoDetachYet == \A h \in HandleIds : ~handles[h].detached

\* Since Pool::new only pulls have touched the channel: nothing was attached
\* or expanded, no handle was dropped or detached.
OnlyPulls == nextObj = initial_capacity + 1 /\ BuiltHandles = LiveHandles

\* ------------------------------------------------------------- claims ----
\* C1: detach() leaves the pool as it was: len() after the call equals len()
\* before it, the queue is untouched, and the handle's teardown does not run.
C1_DetachLeavesPool ==
  [][\A h \in HandleIds :
       DetachStep(h) => (len' = len /\ chan' = chan /\ handles'[h].torn = "no")]_vars

\* C2: over the life of a handle its value is extracted at most once, by
\* detach or by teardown and never by both.
C2_ExtractedAtMostOnce ==
  \A h \in HandleIds :
    handles[h].takes <= 1 /\ ~(handles[h].detached /\ handles[h].torn # "no")

\* C3: every object has at most one owner: queued once, or in one live
\* handle, or with one caller, or discarded.
C3_ExclusiveOwnership == \A o \in Objs : Owners(o) <= 1

\* C4: over sequences of pulls and returns (no handle detached), the objects
\* held by live handles plus len() equal the objects introduced minus the
\* objects discarded on a failed return.
C4_Conservation ==
  NoDetachYet =>
    Cardinality({handles[h].obj : h \in LiveHandles}) + len = introduced - discarded

C4_Witness ==
  /\ NoDetachYet /\ LiveHandles # {} /\ discarded >= 1
  /\ introduced > initial_capacity

\* C5: on a pool with len() = L >= 1, a pull, detach() on the handle and a
\* send of the object through the returned Sender, with nothing else acting,
\* leave len() = L.
C5_DetachRoundTrip ==
  (trip.stage = "sent" /\ trip.len >= 1) => len = trip.len

\* C6 as claimed: with a Pool alive and nothing else acting, len() is one
\* lower while the pulled handle is live, and after the handle's drop the
\* object is back in the queue and len() is what it was before the pull.
\* (Stated for an object of which no caller of detach holds a copy.)
C6_RoundTripPoolAlive ==
  /\ trip.stage = "pulled" => len = trip.len - 1
  /\ (trip.stage = "dropped" /\ pools # {} /\ \A h \in HandleIds : det[h] # trip.obj) =>
        (len = trip.len /\ chan # <<>> /\ chan[Len(chan)] = trip.obj)

\* C6 amended: the same, with a Pool alive and the channel not closed.
C6_RoundTripOpen ==
  /\ trip.stage = "pulled" => len = trip.len - 1
  /\ (trip.stage = "dropped" /\ pools # {} /\ ~closed) =>
        (len = trip.len /\ chan # <<>> /\ chan[Len(chan)] = trip.obj)

C6_Witness ==
  /\ trip.stage = "dropped" /\ pools # {} /\ ~closed
  /\ trip.len = 2 /\ len = 2 /\ handles[trip.h].torn = "Returned"

\* C7 as claimed: a handle outstanding when every Pool value has been dropped
\* still returns its object to the channel on teardown.
C7_ReturnAfterPoolsDropped ==
  [][\A h \in HandleIds :
       (TeardownStep(h) /\ pools = {}) => handles'[h].torn = "Returned"]_vars

\* C7 amended: once every Pool value has been dropped the channel is closed,
\* and the teardown of an outstanding handle does not enqueue its object.
C7_PoolsDroppedClose ==
  [][\A h \in HandleIds :
       (TeardownStep(h) /\ pools = {}) =>
          (closed /\ handles'[h].torn = "Discarded" /\ chan' = chan)]_vars

C7_Witness ==
  \E h \in HandleIds :
    pools = {} /\ ~handles[h].detached /\ handles[h].torn = "Discarded"

\* C8: the teardown of a live handle enqueues the object when the channel is
\* open, discards it leaving the queue unchanged when it is closed, and never
\* brings the process down.
C8_TeardownNeverFails ==
  [][\A h \in HandleIds :
       TeardownStep(h) =>
         /\ ~aborted'
         /\ IF closed
              THEN handles'[h].torn = "Discarded" /\ chan' = chan
              ELSE handles'[h].torn = "Returned" /\ chan' = Append(chan, handles[h].obj)]_vars

\* C9: k pulls from a pool of k objects all succeed, the k handles wrap
\* pairwise distinct objects, every object is in exactly one handle and
\* len() = 0 afterwards.
C9_ConcurrentPullsUnique ==
  OnlyPulls =>
    /\ \A g, h \in LiveHandles : g # h => handles[g].obj # handles[h].obj
    /\ \A o \in 1..initial_capacity : Owners(o) = 1
    /\ Cardinality(LiveHandles) + len = initial_capacity
    /\ outcome # "None"
    /\ outcome = "NoBuffersAvailable" => Cardinality(LiveHandles) = initial_capacity
    /\ Cardinality(LiveHandles) = initial_capacity =>
         (len = 0 /\ {handles[h].obj : h \in LiveHandles} = 1..initial_capacity)

C9_Witness ==
  /\ OnlyPulls /\ initial_capacity = 2 /\ Cardinality(LiveHandles) = 2
  /\ len = 0

\* C10 as claimed: while a Pool value is alive the channel is open, pull()
\* does not return None and attach / try_attach / expand do not fail.
C10_OpenWhilePoolAlive ==
  pools # {} => (~closed /\ outcome \notin {"None", "AttachError"})

\* C10 amended: pull() returns None, and attach / try_attach / expand return
\* AttachError, only when the channel is closed; with a Pool value alive the
\* channel is closed only after a detach() gave a Sender away.
C10_FailOnlyWhenClosed ==
  /\ outcome \in {"None", "AttachError"} => closed
  /\ (closed /\ pools # {}) => ~NoDetachYet

C10_Witness == pools # {} /\ closed /\ outcome = "None" /\ chan = <<>>

\* A step of try_pull: it returned its error, or it built a handle and no
\* future of pull() completed.
TryPullStep ==
  pend' = pend /\ (outcome' = "NoBuffersAvailable" \/ \E h \in HandleIds : PullStep(h))

\* The process runs and the model has a Reusable left to build for a pull.
CanPull == ~aborted /\ FreeHandles # {}

\* C12: try_pull() never suspends: it can always complete in one step; on
\* len() = 0 that step returns NoBuffersAvailable and leaves the queue as it
\* was, on len() >= 1 it returns a handle wrapping the head of the queue and
\* lowers len() by exactly one.
C12_TryPullNeverSuspends ==
  [][/\ (pools # {} /\ ~aborted /\ (chan = <<>> \/ FreeHandles # {})) =>
          ENABLED (\E p \in pools : TryPull(p))
     /\ TryPullStep =>
          IF len = 0
            THEN outcome' = "NoBuffersAvailable" /\ chan' = chan /\ handles' = handles
            ELSE /\ outcome' = "Ok" /\ len' = len - 1 /\ chan' = Tail(chan)
                 /\ \E h \in HandleIds : PullStep(h) /\ handles'[h] = ReusableNew(Head(chan))]_vars

C12_Witness ==
  /\ outcome = "NoBuffersAvailable" /\ chan = <<>> /\ ~closed /\ pools # {}
  /\ LiveHandles # {}

\* A step of expand().
ExpandStep == expandCalls' = expandCalls + 1

\* C13: expand() on an open channel invokes the factory exactly once, appends
\* the new object to the queue so that len() grows by exactly one, returns
\* Ok, and leaves every handle and every detached object as it was.
C13_ExpandAddsOne ==
  [][(ExpandStep /\ ~closed) =>
       /\ factoryCalls' = factoryCalls + 1
       /\ nextObj' = nextObj + 1
       /\ chan' = Append(chan, nextObj) /\ len' = len + 1
       /\ outcome' = "Ok"
       /\ handles' = handles /\ det' = det]_vars

C13_Witness ==
  /\ expandCalls = 1 /\ factoryCalls = initial_capacity + 1
  /\ nextObj = initial_capacity + 2 /\ introduced = initial_capacity + 1
  /\ ~closed /\ outcome = "Ok" /\ LiveHandles # {}
  /\ chan # <<>> /\ chan[Len(chan)] = nextObj - 1

\* Nothing has been taken out of the channel or added to it since Pool::new:
\* no handle was built, expand() was not called, and every object that
\* entered the channel came from the factory (none was attached).
AsConstructed == BuiltHandles = {} /\ expandCalls = 0 /\ introduced = factoryCalls

\* C14: after Pool::new(n, factory), for every n >= 0 and as long as nothing
\* has been pulled or added, the factory has been invoked exactly n times,
\* the queue holds the n objects in the order of their creation, len() = n
\* and is_empty() = (n = 0).
C14_AfterNew ==
  AsConstructed =>
    /\ factoryCalls = initial_capacity
    /\ chan = [i \in 1..initial_capacity |-> i]
    /\ len = initial_capacity
    /\ is_empty <=> (initial_capacity = 0)

C14_Witness ==
  /\ AsConstructed /\ initial_capacity = MaxInit /\ nextObj = MaxInit + 1
  /\ factoryCalls = MaxInit /\ len = MaxInit /\ ~is_empty /\ ~closed
  /\ pools = {1} /\ Pending = 0

\* A step in which a future of kind k is abandoned before it completed.
CancelStep(k) == pend'[k] = pend[k] - 1 /\ outcome' = "Cancelled"

\* C15: abandoning a suspended pull() or attach() changes nothing that is
\* shared: the queue, len(), the closed flag, the handles, the detached
\* objects and so the owners of every object are as before; the abandoned
\* attach has not enqueued its object.
C15_CancellationSafe ==
  [][\A k \in FutKinds :
       CancelStep(k) =>
         /\ chan' = chan /\ len' = len /\ closed' = closed
         /\ handles' = handles /\ det' = det
         /\ introduced' = introduced /\ discarded' = discarded
         /\ \A o \in Objs : Owners(o)' = Owners(o)]_vars

C15_Witness ==
  /\ outcome = "Cancelled" /\ Pending = 0 /\ chan # <<>> /\ LiveHandles # {}
  /\ ~closed

\* A step in which attach, try_attach or expand offers an object to the
\* channel: the object is the one that gets the next id.
OfferStep == nextObj' = nextObj + 1

\* C16: attach, try_attach and expand on an open channel append the object
\* at the back of the queue, raise len() by exactly one and return Ok; on a
\* closed channel they return AttachError and leave the queue as it was.
\* They return nothing else.
C16_AttachOkOrAttachError ==
  [][OfferStep =>
       IF closed
         THEN outcome' = "AttachError" /\ chan' = chan /\ introduced' = introduced
         ELSE /\ outcome' = "Ok" /\ chan' = Append(chan, nextObj) /\ len' = len + 1
              /\ introduced' = introduced + 1]_vars

C16_Witness ==
  /\ outcome = "AttachError" /\ closed /\ pools # {} /\ nextObj > 1
  /\ \A i \in 1..Len(chan) : chan[i] # nextObj - 1

\* C17: the queue is first in, first out: a step that builds a handle takes
\* the object at the head of the queue and leaves the rest in order; every
\* other step leaves the queue as it was or adds one object at the back;
\* the object a handle returns goes to the back.  So of two objects queued
\* at the same time the one enqueued first is pulled first.
C17_FifoHandOut ==
  [][/\ \A h \in HandleIds :
          PullStep(h) =>
            (chan # <<>> /\ handles'[h].obj = Head(chan) /\ chan' = Tail(chan))
     /\ (\A h \in HandleIds : ~PullStep(h)) =>
          (chan' = chan \/ (chan' # <<>> /\ SubSeq(chan', 1, Len(chan') - 1) = chan))
     /\ \A h \in HandleIds :
          (Holding(h) /\ handles'[h].torn = "Returned") =>
            chan' = Append(chan, handles[h].obj)]_vars

C17_Witness ==
  /\ trip.stage = "dropped" /\ trip.obj = 1 /\ trip.len = 2
  /\ chan = <<2, 1>> /\ NoDetachYet

\* C18: the factory is invoked by Pool::new and by expand() and by nothing
\* else: in every state the number of its invocations is initial_capacity
\* plus the number of expand() calls, whatever pulls, attaches, detaches and
\* drops have been made, and the objects that exist beyond those are the
\* ones callers attached.
C18_FactoryOnlyNewAndExpand ==
  /\ factoryCalls = initial_capacity + expandCalls
  /\ factoryCalls <= nextObj - 1

C18_Witness ==
  /\ initial_capacity = 1 /\ expandCalls = 1 /\ factoryCalls = 2
  /\ Cardinality(LiveHandles) = 2 /\ outcome = "NoBuffersAvailable"

\* C20: try_pull() has one error, NoBuffersAvailable, whether the channel is
\* open or closed; pull() and try_pull() report a failure only on an empty
\* queue, and as long as a closed channel holds objects they hand them out.
C20_SingleError ==
  /\ outcome \in {"Ok", "Cancelled", "None", "AttachError", "NoBuffersAvailable"}
  /\ outcome \in {"None", "NoBuffersAvailable"} => chan = <<>>
  /\ (closed /\ chan # <<>> /\ CanPull) =>
        /\ pools # {} => ENABLED (\E p \in pools : TryPull(p) /\ outcome' = "Ok")
        /\ pend["recv"] > 0 => ENABLED (PullPoll /\ outcome' = "Ok")

C20_Witness ==
  /\ outcome = "NoBuffersAvailable" /\ closed /\ pools # {} /\ chan = <<>>
  /\ \E h \in HandleIds : handles[h].detached

\* A task is waiting in pull() while an object is queued.
PullWaiting == pend["recv"] > 0 /\ chan # <<>>

\* C11: under fair scheduling a pull() never waits forever beside a queued
\* object: once a task waits in pull() and an object is queued (returned by
\* a handle, attached, or made by expand), the waiting ends with a pull
\* taking an object, unless the pull is abandoned or other pullers empty the
\* queue first.  (Stated for a running process, and while the model has a
\* Reusable left to build.)
C11_EventualHandOut == []<>~(PullWaiting /\ CanPull)

\* A task waits in pull() on a pool that another puller emptied, and the
\* drop of that puller's handle has just queued the object again.
C11_Witness ==
  /\ PullWaiting /\ CanPull /\ ~closed
  /\ trip.stage = "dropped" /\ trip.len = 1 /\ chan = <<trip.obj>>

TypeOK ==
  /\ pools \subseteq PoolIds
  /\ closed \in BOOLEAN
  /\ aborted \in BOOLEAN
  /\ len <= MaxInit + MaxObjs + MaxHandles

====
